---------------------------- MODULE Spec2Model ----------------------------
(***************************************************************************)
(* Model of src/lastfm_etl_fix.py: the Last.fm -> BigQuery ETL flow.       *)
(*                                                                         *)
(*   extract_global    one HTTP GET, JSON parse, nested list -> DataFrame  *)
(*   transform_global  shape-specific projection / integer coercion        *)
(*   load_to_bigquery  WRITE_APPEND load job, then a metadata read         *)
(*   etl_global_topdata  the five sub-pipelines, straight-line, no except  *)
(*                                                                         *)
(* JSON / pandas values are tagged records so that values of different     *)
(* Python types can live in one column.  Text is a sequence of characters  *)
(* so that int() is computed, not assumed.                                 *)
(***************************************************************************)
EXTENDS Integers, Sequences, FiniteSets, Bags, TLC

VARIABLES
    cfg,        \* module-level configuration: setting -> present?  (lines 13-16)
    status,     \* "boot" | "config_fault" | "idle" | "running" | "failed" | "completed"
    i,          \* index of the sub-pipeline the flow is in (1..5), 0 outside a run
    pc,         \* next call of the flow: "extract" | "transform" | "load" | "none"
    resp,       \* the HTTP response the last extract_global received
    raw,        \* the flow's local df_<x>   : value returned by extract_global
    norm,       \* the flow's local df_<x>_t : value returned by transform_global
    fault,      \* the exception that unwound the run, "none" otherwise
    warehouse,  \* BigQuery: destination table -> bag of rows
    whAtStart,  \* warehouse as it was when the current run started (history)
    calls,      \* the task calls of the current run, in order (history)
    run,        \* number of runs started so far
    clock       \* the UTC clock that datetime.utcnow() reads

vars == <<cfg, status, i, pc, resp, raw, norm, fault, warehouse, whAtStart,
          calls, run, clock>>

(***************************************************************************)
(* Bounds of the model.                                                    *)
(***************************************************************************)
MaxRows == 2       \* longest nested list drawn for the shape specification
MaxRuns == 2       \* scheduled runs explored by the flow specification

(***************************************************************************)
(* Values.                                                                 *)
(***************************************************************************)
Txt(s)    == [kind |-> "text", txt |-> s,    num |-> 0, has |-> FALSE]
Num(n)    == [kind |-> "int",  txt |-> <<>>, num |-> n, has |-> FALSE]
NaN       == [kind |-> "nan",  txt |-> <<>>, num |-> 0, has |-> FALSE]
None      == [kind |-> "none", txt |-> <<>>, num |-> 0, has |-> FALSE]
\* a JSON object used as a field value: only its "name" member is ever read
MapWith(s) == [kind |-> "map", txt |-> s,    num |-> 0, has |-> TRUE]
MapNoName  == [kind |-> "map", txt |-> <<>>, num |-> 0, has |-> FALSE]
\* datetime.utcnow().isoformat() read at clock value t
Stamp(t)  == [kind |-> "time", txt |-> <<>>, num |-> t, has |-> FALSE]

EmptyDict == <<>>

\* dict.get(key, default)
DictGet(d, key, default) == IF key \in DOMAIN d THEN d[key] ELSE default

(***************************************************************************)
(* Python int(str): surrounding whitespace is stripped, one optional sign, *)
(* then one or more decimal digits.  Anything else raises ValueError.      *)
(***************************************************************************)
Digits == <<"0", "1", "2", "3", "4", "5", "6", "7", "8", "9">>

IsDigit(c) == \E d \in 1..Len(Digits) : Digits[d] = c

DigitVal(c) == (CHOOSE d \in 1..Len(Digits) : Digits[d] = c) - 1

RECURSIVE LStrip(_)
LStrip(s) == IF s # <<>> /\ Head(s) = " " THEN LStrip(Tail(s)) ELSE s

RECURSIVE RStrip(_)
RStrip(s) == IF s # <<>> /\ s[Len(s)] = " "
             THEN RStrip(SubSeq(s, 1, Len(s) - 1)) ELSE s

Strip(s) == RStrip(LStrip(s))

RECURSIVE DigitsValue(_)
DigitsValue(s) == IF s = <<>> THEN 0
                  ELSE 10 * DigitsValue(SubSeq(s, 1, Len(s) - 1))
                       + DigitVal(s[Len(s)])

AllDigits(s) == s # <<>> /\ \A p \in 1..Len(s) : IsDigit(s[p])

Unsigned(s) == IF s # <<>> /\ Head(s) \in {"+", "-"} THEN Tail(s) ELSE s

StrIsInt(s) == AllDigits(Unsigned(Strip(s)))

StrToInt(s) == LET t == Strip(s)
               IN  IF Head(t) = "-" THEN 0 - DigitsValue(Tail(t))
                   ELSE DigitsValue(Unsigned(t))

\* Series.astype(int), one element: does int(v) succeed, and with what
CanInt(v) == \/ v.kind = "int"
             \/ v.kind = "text" /\ StrIsInt(v.txt)

ToInt(v) == IF v.kind = "int" THEN v.num ELSE StrToInt(v.txt)

(***************************************************************************)
(* pandas.DataFrame.                                                       *)
(***************************************************************************)
\* the order in which the keys of the records are met
KeyOrder == <<"name", "artist", "listeners", "playcount", "reach", "taggings">>

SeqToSet(s) == {s[p] : p \in 1..Len(s)}

\* pd.DataFrame(records): one row per list entry, one column per key met,
\* NaN where a record lacks the key
DataFrame(records) ==
    LET keys == UNION {DOMAIN records[j] : j \in 1..Len(records)}
    IN  [columns |-> SelectSeq(KeyOrder, LAMBDA k : k \in keys),
         rows    |-> [j \in 1..Len(records) |->
                        [k \in keys |-> DictGet(records[j], k, NaN)]]]

\* df.empty: any axis of length 0
DfEmpty(df) == Len(df.columns) = 0 \/ Len(df.rows) = 0

HasColumn(df, c) == c \in SeqToSet(df.columns)

\* df[c].astype(int) succeeds
ColumnCanInt(df, c) == \A j \in 1..Len(df.rows) : CanInt(df.rows[j][c])

NoTable == [columns |-> <<>>, rows |-> <<>>]

Returns(df) == [fault |-> "none", df |-> df]
Raises(e)   == [fault |-> e, df |-> NoTable]

(***************************************************************************)
(* Configuration and constants (lines 13-26).                              *)
(***************************************************************************)
Settings == {"LASTFM_API_KEY", "GCP_PROJECT_ID", "BQ_DATASET",
             "GOOGLE_APPLICATION_CREDENTIALS"}

BQ_TABLE_GEO_ARTISTS   == "lastfm_geo_top_artists"
BQ_TABLE_GEO_TRACKS    == "lastfm_geo_top_tracks"
BQ_TABLE_CHART_ARTISTS == "lastfm_chart_top_artists"
BQ_TABLE_CHART_TRACKS  == "lastfm_chart_top_tracks"
BQ_TABLE_CHART_TAGS    == "lastfm_chart_top_tags"

Tables == {BQ_TABLE_GEO_ARTISTS, BQ_TABLE_GEO_TRACKS, BQ_TABLE_CHART_ARTISTS,
           BQ_TABLE_CHART_TRACKS, BQ_TABLE_CHART_TAGS}

(***************************************************************************)
(* extract_global (lines 29-60).                                           *)
(***************************************************************************)
key_map(method) ==
    CASE method = "geo.gettopartists"   -> <<"topartists", "artist">>
      [] method = "geo.gettoptracks"    -> <<"tracks", "track">>
      [] method = "chart.gettopartists" -> <<"artists", "artist">>
      [] method = "chart.gettoptracks"  -> <<"tracks", "track">>
      [] method = "chart.gettoptags"    -> <<"tags", "tag">>

\* a JSON object as the value of the outer key, and the {} default of .get
JObject(m) == [kind |-> "map", m |-> m]
JNull      == [kind |-> "null", m |-> EmptyDict]

\* faulty variant: data[parent_key][child_key], without the .get defaults
extract_global_NoDefaults(method, r) ==
    IF r.status # "ok" THEN Raises("HTTPError")
    ELSE LET parent_key == key_map(method)[1]
             child_key  == key_map(method)[2]
         IN  IF parent_key \notin DOMAIN r.body THEN Raises("KeyError")
             ELSE IF r.body[parent_key].kind # "map" THEN Raises("TypeError")
             ELSE IF child_key \notin DOMAIN r.body[parent_key].m
                  THEN Raises("KeyError")
             ELSE Returns(DataFrame(r.body[parent_key].m[child_key]))

\* lines 40-60, given the response the GET produced
extract_global(method, r) ==
    IF r.status = "network_error" THEN Raises("ConnectionError")
    ELSE IF r.status = "http_error" THEN Raises("HTTPError")
    ELSE IF r.status = "bad_json" THEN Raises("JSONDecodeError")
    ELSE LET parent_key == key_map(method)[1]
             child_key  == key_map(method)[2]
             outer      == DictGet(r.body, parent_key, JObject(EmptyDict))
         IN  IF outer.kind # "map" THEN Raises("AttributeError")
             ELSE Returns(DataFrame(DictGet(outer.m, child_key, <<>>)))

(***************************************************************************)
(* transform_global (lines 62-92).  The statements run in source order, so *)
(* the first one that raises decides the fault.  The columns the function  *)
(* adds to its argument before projecting are never read by the caller.    *)
(***************************************************************************)
\* faulty variant: the projection lists playcount before listeners
ArtistColumns_Reordered ==
    <<"artist_name", "playcount", "listeners", "timestamp">>

ArtistColumns == <<"artist_name", "listeners", "playcount", "timestamp">>
TrackColumns  == <<"artist_name", "track_name", "listeners", "timestamp">>
TagColumns    == <<"tag_name", "reach", "taggings", "timestamp">>

\* faulty variant: a plain-string artist is taken as the artist's name
ArtistNameOf_StringAsName(x) ==
    IF x.kind = "map" THEN (IF x.has THEN Txt(x.txt) ELSE None)
    ELSE IF x.kind = "text" THEN Txt(x.txt)
    ELSE None

\* line 79: x.get("name") if isinstance(x, dict) else None
ArtistNameOf(x) == IF x.kind = "map"
                   THEN (IF x.has THEN Txt(x.txt) ELSE None)
                   ELSE None

\* line 74: df.get("playcount", None)
PlaycountOf(df, j) == IF HasColumn(df, "playcount")
                      THEN df.rows[j]["playcount"] ELSE None

\* first failing coercion: int(None) and int({}) are TypeErrors, the rest
\* ValueErrors
CoerceFault(df, c) ==
    LET bad == CHOOSE j \in 1..Len(df.rows) : ~CanInt(df.rows[j][c])
    IN  IF df.rows[bad][c].kind \in {"none", "map"}
        THEN "TypeError" ELSE "ValueError"

TransformArtists(df, now) ==
    IF ~HasColumn(df, "name") THEN Raises("KeyError")
    ELSE IF ~HasColumn(df, "listeners") THEN Raises("KeyError")
    ELSE IF ~ColumnCanInt(df, "listeners")
         THEN Raises(CoerceFault(df, "listeners"))
    ELSE Returns([columns |-> ArtistColumns,
                  rows |-> [j \in 1..Len(df.rows) |->
                     [artist_name |-> df.rows[j]["name"],
                      listeners   |-> Num(ToInt(df.rows[j]["listeners"])),
                      playcount   |-> PlaycountOf(df, j),
                      timestamp   |-> Stamp(now)]]])

TransformTracks(df, now) ==
    IF ~HasColumn(df, "artist") THEN Raises("KeyError")
    ELSE IF ~HasColumn(df, "name") THEN Raises("KeyError")
    ELSE IF ~HasColumn(df, "listeners") THEN Raises("KeyError")
    ELSE IF ~ColumnCanInt(df, "listeners")
         THEN Raises(CoerceFault(df, "listeners"))
    ELSE Returns([columns |-> TrackColumns,
                  rows |-> [j \in 1..Len(df.rows) |->
                     [artist_name |-> ArtistNameOf(df.rows[j]["artist"]),
                      track_name  |-> df.rows[j]["name"],
                      listeners   |-> Num(ToInt(df.rows[j]["listeners"])),
                      timestamp   |-> Stamp(now)]]])

\* faulty variant: line 88 left out, taggings is not coerced
TransformTags_TaggingsNotCoerced(df, now) ==
    IF ~HasColumn(df, "name") THEN Raises("KeyError")
    ELSE IF ~HasColumn(df, "reach") THEN Raises("KeyError")
    ELSE IF ~ColumnCanInt(df, "reach") THEN Raises(CoerceFault(df, "reach"))
    ELSE IF ~HasColumn(df, "taggings") THEN Raises("KeyError")
    ELSE Returns([columns |-> <<"tag_name", "reach", "taggings", "timestamp">>,
                  rows |-> [j \in 1..Len(df.rows) |->
                     [tag_name  |-> df.rows[j]["name"],
                      reach     |-> Num(ToInt(df.rows[j]["reach"])),
                      taggings  |-> df.rows[j]["taggings"],
                      timestamp |-> Stamp(now)]]])

TransformTags(df, now) ==
    IF ~HasColumn(df, "name") THEN Raises("KeyError")
    ELSE IF ~HasColumn(df, "reach") THEN Raises("KeyError")
    ELSE IF ~ColumnCanInt(df, "reach") THEN Raises(CoerceFault(df, "reach"))
    ELSE IF ~HasColumn(df, "taggings") THEN Raises("KeyError")
    ELSE IF ~ColumnCanInt(df, "taggings")
         THEN Raises(CoerceFault(df, "taggings"))
    ELSE Returns([columns |-> TagColumns,
                  rows |-> [j \in 1..Len(df.rows) |->
                     [tag_name  |-> df.rows[j]["name"],
                      reach     |-> Num(ToInt(df.rows[j]["reach"])),
                      taggings  |-> Num(ToInt(df.rows[j]["taggings"])),
                      timestamp |-> Stamp(now)]]])

\* faulty variant: lines 64-66 left out, an empty table is normalized too
transform_global_NoEmptyGuard(df, level, now) ==
    IF level \in {"geo_artists", "chart_artists"}
    THEN TransformArtists(df, now)
    ELSE IF level \in {"geo_tracks", "chart_tracks"}
    THEN TransformTracks(df, now)
    ELSE TransformTags(df, now)

transform_global(df, level, now) ==
    IF DfEmpty(df) THEN Returns(df)
    ELSE IF level \in {"geo_artists", "chart_artists"}
         THEN TransformArtists(df, now)
    ELSE IF level \in {"geo_tracks", "chart_tracks"}
         THEN TransformTracks(df, now)
    ELSE IF level = "chart_tags" THEN TransformTags(df, now)
    ELSE Returns(df)

(***************************************************************************)
(* load_to_bigquery (lines 94-112).  outcome is what the warehouse does:   *)
(*   "auth_fault"  bigquery.Client(...) raises, nothing was sent           *)
(*   "job_fault"   load_table_from_dataframe / job.result() raises: a load *)
(*                 job is atomic, no row is written                        *)
(*   "meta_fault"  the job succeeded, client.get_table raises              *)
(*   "ok"          both calls succeed                                      *)
(***************************************************************************)
LoadOutcomes == {"ok", "auth_fault", "job_fault", "meta_fault"}

\* the rows of a DataFrame as a bag
RowBag(df) ==
    LET R == {df.rows[j] : j \in 1..Len(df.rows)}
    IN  [r \in R |-> Cardinality({j \in 1..Len(df.rows) : df.rows[j] = r})]

\* faulty variant: write_disposition="WRITE_TRUNCATE"
WriteTruncate(old, df) == RowBag(df)

\* line 105: write_disposition="WRITE_APPEND"
WriteAppend(old, df) == old (+) RowBag(df)

\* the external calls the task makes, in order
LoadCalls(df, outcome) ==
    IF DfEmpty(df) THEN <<>>
    ELSE IF outcome = "auth_fault" THEN <<"Client">>
    ELSE IF outcome = "job_fault" THEN <<"Client", "load_table_from_dataframe">>
    ELSE <<"Client", "load_table_from_dataframe", "get_table">>

LoadFault(df, outcome) ==
    IF DfEmpty(df) THEN "none"
    ELSE IF outcome = "auth_fault" THEN "DefaultCredentialsError"
    ELSE IF outcome = "job_fault" THEN "BadRequest"
    ELSE IF outcome = "meta_fault" THEN "GoogleAPICallError"
    ELSE "none"

\* faulty variant: a load whose job fails has written its rows all the same
load_to_bigquery_NotAtomic(old, df, outcome) ==
    IF DfEmpty(df) THEN old
    ELSE IF outcome = "auth_fault" THEN old
    ELSE old (+) RowBag(df)

\* the destination table after the task
load_to_bigquery(old, df, outcome) ==
    IF DfEmpty(df) THEN old
    ELSE IF outcome \in {"auth_fault", "job_fault"} THEN old
    ELSE WriteAppend(old, df)

(***************************************************************************)
(* etl_global_topdata (lines 115-137): five sub-pipelines, in this order.  *)
(***************************************************************************)
\* faulty variant: the chart_tracks rows are loaded into the tags table
Pipeline_WrongTable ==
    << [method |-> "geo.gettopartists",   level |-> "geo_artists",
        table  |-> BQ_TABLE_GEO_ARTISTS],
       [method |-> "geo.gettoptracks",    level |-> "geo_tracks",
        table  |-> BQ_TABLE_GEO_TRACKS],
       [method |-> "chart.gettopartists", level |-> "chart_artists",
        table  |-> BQ_TABLE_CHART_ARTISTS],
       [method |-> "chart.gettoptracks",  level |-> "chart_tracks",
        table  |-> BQ_TABLE_CHART_TAGS],
       [method |-> "chart.gettoptags",    level |-> "chart_tags",
        table  |-> BQ_TABLE_CHART_TAGS] >>

Pipeline ==
    << [method |-> "geo.gettopartists",   level |-> "geo_artists",
        table  |-> BQ_TABLE_GEO_ARTISTS],
       [method |-> "geo.gettoptracks",    level |-> "geo_tracks",
        table  |-> BQ_TABLE_GEO_TRACKS],
       [method |-> "chart.gettopartists", level |-> "chart_artists",
        table  |-> BQ_TABLE_CHART_ARTISTS],
       [method |-> "chart.gettoptracks",  level |-> "chart_tracks",
        table  |-> BQ_TABLE_CHART_TRACKS],
       [method |-> "chart.gettoptags",    level |-> "chart_tags",
        table  |-> BQ_TABLE_CHART_TAGS] >>

NumPipelines == Len(Pipeline)

\* faulty variant: each sub-pipeline in its own try/except, the flow goes on
Advance_Isolated(k, step, e) ==
    IF e # "none" \/ step = "load"
    THEN IF k < Len(Pipeline)
         THEN [status |-> "running", i |-> k + 1, pc |-> "extract",
               fault |-> "none"]
         ELSE [status |-> "completed", i |-> k, pc |-> "none", fault |-> "none"]
    ELSE IF step = "extract"
    THEN [status |-> "running", i |-> k, pc |-> "transform", fault |-> "none"]
    ELSE [status |-> "running", i |-> k, pc |-> "load", fault |-> "none"]

\* The flow has no try/except: where control is after the call `step` of
\* sub-pipeline k returned (e = "none") or raised e.
Advance(k, step, e) ==
    IF e # "none"
    THEN [status |-> "failed", i |-> k, pc |-> "none", fault |-> e]
    ELSE IF step = "extract"
    THEN [status |-> "running", i |-> k, pc |-> "transform", fault |-> "none"]
    ELSE IF step = "transform"
    THEN [status |-> "running", i |-> k, pc |-> "load", fault |-> "none"]
    ELSE IF k < NumPipelines
    THEN [status |-> "running", i |-> k + 1, pc |-> "extract", fault |-> "none"]
    ELSE [status |-> "completed", i |-> k, pc |-> "none", fault |-> "none"]

Goto(c) == /\ status' = c.status
           /\ i' = c.i
           /\ pc' = c.pc
           /\ fault' = c.fault

\* one entry of the run's call history; wrote is the number of rows the call
\* added to its destination table
Call(op, k, arg, df, io, e, wrote) ==
    [op |-> op, k |-> k, arg |-> arg, empty |-> DfEmpty(df), io |-> io,
     fault |-> e, wrote |-> wrote]

(***************************************************************************)
(* What the environment can answer.                                        *)
(***************************************************************************)
NetError  == [status |-> "network_error", body |-> EmptyDict]
HttpError == [status |-> "http_error",    body |-> EmptyDict]
BadJson   == [status |-> "bad_json",      body |-> EmptyDict]
Ok(body)  == [status |-> "ok", body |-> body]
NoResponse == [status |-> "none", body |-> EmptyDict]

\* {parent: {child: list}}
Nested(method, list) ==
    LET parent_key == key_map(method)[1]
        child_key  == key_map(method)[2]
    IN  [p \in {parent_key} |-> JObject([c \in {child_key} |-> list])]

\* a marker for "this record has no such key", used to enumerate records
Absent == [kind |-> "absent", txt |-> <<>>, num |-> 0, has |-> FALSE]

CountOptions == {Absent, Txt(<<"1", "0">>), Txt(<<"x">>), Num(7)}

\* every record over the keys of opts, each key absent or one of its options
RecordsOver(opts) ==
    LET full == {f \in [DOMAIN opts -> UNION {opts[k] : k \in DOMAIN opts}] :
                    \A k \in DOMAIN opts : f[k] \in opts[k]}
    IN  {[k \in {x \in DOMAIN f : f[x].kind # "absent"} |-> f[k]] : f \in full}

Lists(S) == UNION {[1..n -> S] : n \in 0..MaxRows}

ArtistLists ==
    Lists(RecordsOver([name      |-> {Absent, Txt(<<"X">>)},
                       listeners |-> CountOptions,
                       playcount |-> {Absent, Txt(<<"5">>)}]))

TrackLists ==
    Lists(RecordsOver([name      |-> {Absent, Txt(<<"T">>)},
                       artist    |-> {Absent, Txt(<<"A">>), MapWith(<<"A">>),
                                      MapNoName},
                       listeners |-> CountOptions]))

TagLists ==
    Lists(RecordsOver([name      |-> {Absent, Txt(<<"r">>)},
                       reach     |-> CountOptions,
                       taggings  |-> CountOptions]))

ShapeLists(level) ==
    IF level \in {"geo_artists", "chart_artists"} THEN ArtistLists
    ELSE IF level \in {"geo_tracks", "chart_tracks"} THEN TrackLists
    ELSE TagLists

\* the answers drawn for the shape specification
ShapeResponses(m, level) ==
    LET parent_key == key_map(m)[1]
    IN  {NetError, HttpError, BadJson,
         Ok(EmptyDict),
         Ok([p \in {"error"} |-> JNull]),
         Ok([p \in {parent_key} |-> JNull]),
         Ok([p \in {parent_key} |-> JObject(EmptyDict)]),
         Ok([p \in {parent_key} |-> JObject([c \in {"@attr"} |-> <<>>])])}
        \cup {Ok(Nested(m, l)) : l \in ShapeLists(level)}

\* two well-formed records and one with a non-numeric count, per shape
GoodRecords(level) ==
    IF level \in {"geo_artists", "chart_artists"}
    THEN << [name |-> Txt(<<"X">>), listeners |-> Txt(<<"1", "0">>),
             playcount |-> Txt(<<"5">>)],
            [name |-> Txt(<<"Y">>), listeners |-> Num(7)] >>
    ELSE IF level \in {"geo_tracks", "chart_tracks"}
    THEN << [name |-> Txt(<<"T">>), artist |-> MapWith(<<"A">>),
             listeners |-> Txt(<<"1", "0">>)],
            [name |-> Txt(<<"U">>), artist |-> Txt(<<"A">>),
             listeners |-> Txt(<<"7">>)] >>
    ELSE << [name |-> Txt(<<"r">>), reach |-> Txt(<<"1", "0">>),
             taggings |-> Txt(<<"7">>)],
            [name |-> Txt(<<"p">>), reach |-> Num(7), taggings |-> Num(3)] >>

BadRecords(level) ==
    IF level = "chart_tags"
    THEN << [name |-> Txt(<<"r">>), reach |-> Txt(<<"x">>),
             taggings |-> Txt(<<"7">>)] >>
    ELSE IF level \in {"geo_tracks", "chart_tracks"}
    THEN << [name |-> Txt(<<"T">>), artist |-> MapWith(<<"A">>),
             listeners |-> Txt(<<"x">>)] >>
    ELSE << [name |-> Txt(<<"X">>), listeners |-> Txt(<<"x">>)] >>

\* the answers drawn for the flow specification
FlowResponses(m, level) ==
    {NetError, HttpError, BadJson,
     Ok(EmptyDict),
     Ok(Nested(m, << EmptyDict >>)),
     Ok(Nested(m, GoodRecords(level))),
     Ok(Nested(m, BadRecords(level)))}

(***************************************************************************)
(* Actions.                                                                *)
(***************************************************************************)
\* lines 11-18: os.environ[...] = None raises TypeError at import
ConfigFault(c) == ~c["GOOGLE_APPLICATION_CREDENTIALS"]

LoadModule ==
    /\ status = "boot"
    /\ status' = IF ConfigFault(cfg) THEN "config_fault" ELSE "idle"
    /\ fault' = IF ConfigFault(cfg) THEN "TypeError" ELSE "none"
    /\ UNCHANGED <<cfg, i, pc, resp, raw, norm, warehouse, whAtStart, calls,
                   run, clock>>

\* interval=timedelta(days=1), in clock ticks: longer than a run, which
\* reads the clock at most once per sub-pipeline
Interval == NumPipelines + 1

\* the scheduler (serve, lines 139-144) invokes the flow; lines 116-117
StartRun ==
    /\ status \in {"idle", "failed", "completed"}
    /\ run < MaxRuns
    /\ run' = run + 1
    /\ status' = "running"
    /\ i' = 1
    /\ pc' = "extract"
    /\ fault' = "none"
    /\ calls' = <<>>
    /\ whAtStart' = warehouse
    /\ resp' = NoResponse
    /\ raw' = NoTable
    /\ norm' = NoTable
    /\ clock' = run' * Interval
    /\ UNCHANGED <<cfg, warehouse>>

\* df_x = extract_global(method, ...), the GET answered by r
Extract(r) ==
    /\ status = "running"
    /\ pc = "extract"
    /\ LET res == extract_global(Pipeline[i].method, r)
       IN  /\ resp' = r
           /\ raw' = res.df
           /\ calls' = Append(calls, Call("extract_global", i,
                                Pipeline[i].method, res.df, <<"GET">>, res.fault, 0))
           /\ Goto(Advance(i, "extract", res.fault))
    /\ UNCHANGED <<cfg, norm, warehouse, whAtStart, run, clock>>

\* df_x_t = transform_global(df_x, level); utcnow() is read on line 69
Transform ==
    /\ status = "running"
    /\ pc = "transform"
    /\ LET res == transform_global(raw, Pipeline[i].level, clock)
       IN  /\ norm' = res.df
           /\ calls' = Append(calls, Call("transform_global", i,
                                Pipeline[i].level, raw, <<>>, res.fault, 0))
           /\ Goto(Advance(i, "transform", res.fault))
    /\ clock' = clock + 1
    /\ UNCHANGED <<cfg, resp, raw, warehouse, whAtStart, run>>

\* the warehouse's possible behaviours: the destination None.<ds>.<t> or
\* <p>.None.<t> of a missing project id or dataset name does not exist
OutcomesFor(c, df) ==
    IF DfEmpty(df) THEN {"ok"}
    ELSE IF ~c["GCP_PROJECT_ID"] \/ ~c["BQ_DATASET"]
    THEN {"auth_fault", "job_fault"}
    ELSE LoadOutcomes

\* load_to_bigquery(df_x_t, table)
Load(outcome) ==
    /\ status = "running"
    /\ pc = "load"
    /\ outcome \in OutcomesFor(cfg, norm)
    /\ LET t == Pipeline[i].table
           e == LoadFault(norm, outcome)
       IN  /\ warehouse' = [warehouse EXCEPT
                               ![t] = load_to_bigquery(@, norm, outcome)]
           /\ calls' = Append(calls, Call("load_to_bigquery", i, t, norm,
                                 LoadCalls(norm, outcome), e,
                                 BagCardinality(warehouse'[t])
                                     - BagCardinality(warehouse[t])))
           /\ Goto(Advance(i, "load", e))
           \* the locals of a finished sub-pipeline are never read again
           /\ IF e = "none" /\ i < NumPipelines
              THEN resp' = NoResponse /\ raw' = NoTable /\ norm' = NoTable
              ELSE UNCHANGED <<resp, raw, norm>>
    /\ UNCHANGED <<cfg, whAtStart, run, clock>>

(***************************************************************************)
(* Specifications.                                                         *)
(***************************************************************************)
AllPresent == [s \in Settings |-> TRUE]

InitWith(c) ==
    /\ cfg = c
    /\ status = "boot"
    /\ i = 0
    /\ pc = "none"
    /\ resp = NoResponse
    /\ raw = NoTable
    /\ norm = NoTable
    /\ fault = "none"
    /\ warehouse = [t \in Tables |-> EmptyBag]
    /\ whAtStart = [t \in Tables |-> EmptyBag]
    /\ calls = <<>>
    /\ run = 0
    /\ clock = 0

\* the deployed process: every setting is in the environment
Init == InitWith(AllPresent)

FlowExtract ==
    /\ pc = "extract"
    /\ \E r \in FlowResponses(Pipeline[i].method, Pipeline[i].level) : Extract(r)

FlowLoad == \E o \in LoadOutcomes : Load(o)

Next == \/ LoadModule
        \/ StartRun
        \/ FlowExtract
        \/ Transform
        \/ FlowLoad

Spec == Init /\ [][Next]_vars

\* any environment: each setting present or not
InitCfg == \E c \in [Settings -> BOOLEAN] : InitWith(c)

SpecCfg == InitCfg /\ [][Next]_vars

\* extract_global and transform_global on every answer of the shape's domain
InitShape ==
    /\ cfg = AllPresent
    /\ status = "running"
    /\ i \in 1..NumPipelines
    /\ pc = "extract"
    /\ resp = NoResponse
    /\ raw = NoTable
    /\ norm = NoTable
    /\ fault = "none"
    /\ warehouse = [t \in Tables |-> EmptyBag]
    /\ whAtStart = [t \in Tables |-> EmptyBag]
    /\ calls = <<>>
    /\ run = 1
    /\ clock = 1

ShapeExtract ==
    /\ pc = "extract"
    /\ \E r \in ShapeResponses(Pipeline[i].method, Pipeline[i].level) : Extract(r)

NextShape == \/ ShapeExtract
             \/ Transform

SpecShape == InitShape /\ [][NextShape]_vars

(***************************************************************************)
(* Properties of the flow.                                                 *)
(***************************************************************************)
\* the order, and what matches each shape kind, as the specification words it
ShapeOrder == <<"geo_artists", "geo_tracks", "chart_artists", "chart_tracks",
                "chart_tags">>

MethodFor(level) ==
    CASE level = "geo_artists"   -> "geo.gettopartists"
      [] level = "geo_tracks"    -> "geo.gettoptracks"
      [] level = "chart_artists" -> "chart.gettopartists"
      [] level = "chart_tracks"  -> "chart.gettoptracks"
      [] level = "chart_tags"    -> "chart.gettoptags"

TableFor(level) ==
    CASE level = "geo_artists"   -> "lastfm_geo_top_artists"
      [] level = "geo_tracks"    -> "lastfm_geo_top_tracks"
      [] level = "chart_artists" -> "lastfm_chart_top_artists"
      [] level = "chart_tracks"  -> "lastfm_chart_top_tracks"
      [] level = "chart_tags"    -> "lastfm_chart_top_tags"

\* the n-th task call of a run that does not fault
ExpectedCall(n) ==
    LET k     == ((n - 1) \div 3) + 1
        level == ShapeOrder[k]
    IN  CASE (n - 1) % 3 = 0 ->
               [op |-> "extract_global", k |-> k, arg |-> MethodFor(level)]
          [] (n - 1) % 3 = 1 ->
               [op |-> "transform_global", k |-> k, arg |-> level]
          [] (n - 1) % 3 = 2 ->
               [op |-> "load_to_bigquery", k |-> k, arg |-> TableFor(level)]

WarehouseCalls == {"load_table_from_dataframe", "get_table"}

LastCall == calls[Len(calls)]

\* C1: the task calls of a run are, in order, fetch / normalize / load of
\* geo_artists, geo_tracks, chart_artists, chart_tracks, chart_tags, each
\* with its own method, shape kind and destination table; the next call to
\* start is always the one after the last that returned; every fetch issues
\* its GET whatever the earlier results were; and a run that completes has
\* made all fifteen calls.
C1_FixedSequentialOrder ==
    /\ Len(calls) <= 3 * Len(ShapeOrder)
    /\ \A n \in 1..Len(calls) :
          /\ calls[n].op  = ExpectedCall(n).op
          /\ calls[n].k   = ExpectedCall(n).k
          /\ calls[n].arg = ExpectedCall(n).arg
          /\ calls[n].op = "extract_global" => calls[n].io = <<"GET">>
    /\ status = "running" =>
          /\ Len(calls) < 3 * Len(ShapeOrder)
          /\ i = ExpectedCall(Len(calls) + 1).k
          /\ pc = CASE Len(calls) % 3 = 0 -> "extract"
                    [] Len(calls) % 3 = 1 -> "transform"
                    [] Len(calls) % 3 = 2 -> "load"
    /\ status = "completed" => Len(calls) = 3 * Len(ShapeOrder)

\* a completed run whose first fetch was empty and whose last was not
C1_Witness ==
    /\ status = "completed"
    /\ calls[1].empty
    /\ ~calls[13].empty
    /\ calls[15].wrote > 0

\* C2: a call that raised is the last call of its run, the run is failed
\* with that fault, and nothing is pending.
C2_FaultAborts ==
    /\ \A n \in 1..Len(calls) :
          calls[n].fault # "none" =>
             /\ n = Len(calls)
             /\ status = "failed"
             /\ fault = calls[n].fault
             /\ pc = "none"
    /\ status = "failed" => calls # <<>> /\ LastCall.fault # "none"

\* a run that failed in its second sub-pipeline's normalization
C2_Witness ==
    /\ status = "failed"
    /\ Len(calls) = 5
    /\ LastCall.op = "transform_global"
    /\ LastCall.fault = "ValueError"

\* C3: an empty table comes back from transform_global as it went in, with
\* no fault; load_to_bigquery of an empty table returns without creating a
\* client or calling the warehouse, and the destination keeps its rows.
C3_EmptyIsNoOp ==
    /\ (calls # <<>> /\ LastCall.op = "transform_global" /\ DfEmpty(raw)) =>
          /\ LastCall.fault = "none"
          /\ norm = raw
          /\ ~HasColumn(norm, "timestamp")
          /\ pc = "load"
    /\ \A n \in 1..Len(calls) :
          (calls[n].op = "load_to_bigquery" /\ calls[n].empty) =>
             /\ calls[n].io = <<>>
             /\ calls[n].fault = "none"
             /\ calls[n].wrote = 0
             /\ warehouse[calls[n].arg] = whAtStart[calls[n].arg]

\* a completed second run in which all five fetches were empty
C3_Witness ==
    /\ status = "completed"
    /\ run = 2
    /\ \A n \in 1..Len(calls) : calls[n].empty
    /\ \E t \in Tables : warehouse[t] # EmptyBag

\* the number of rows of df equal to r
Copies(df, r) == Cardinality({j \in 1..Len(df.rows) : df.rows[j] = r})

\* C4: no step removes a row from a destination table, and a load of a
\* non-empty table whose job succeeds adds exactly its n rows to the
\* sub-pipeline's own destination and nothing to the others.
C4_AppendOnly ==
    [][ /\ \A t \in Tables : warehouse[t] \sqsubseteq warehouse'[t]
        /\ (pc = "load" /\ calls' # calls /\ ~DfEmpty(norm)
               /\ "get_table" \in SeqToSet(calls'[Len(calls')].io)) =>
              LET t == TableFor(ShapeOrder[i])
              IN  /\ BagCardinality(warehouse'[t])
                        = BagCardinality(warehouse[t]) + Len(norm.rows)
                  /\ \A j \in 1..Len(norm.rows) :
                        CopiesIn(norm.rows[j], warehouse'[t])
                           = CopiesIn(norm.rows[j], warehouse[t])
                             + Copies(norm, norm.rows[j])
                  /\ \A u \in Tables \ {t} : warehouse'[u] = warehouse[u]
      ]_vars

\* a destination holding the rows of two runs
C4_Witness ==
    /\ run = 2
    /\ BagCardinality(warehouse[BQ_TABLE_CHART_TAGS]) = 4
    /\ BagCardinality(whAtStart[BQ_TABLE_CHART_TAGS]) = 2

\* C5: with any required setting absent, no run makes an HTTP GET or a
\* warehouse call (the configuration fault comes first).
C5_ConfigFaultBeforeIO ==
    (\E s \in Settings : ~cfg[s]) =>
       \A n \in 1..Len(calls) : calls[n].io = <<>>

\* the load call of sub-pipeline j in the run's history
LoadCallOf(j) == calls[3 * j]

\* the loads of the sub-pipelines before the one the flow is in are still in
\* their destinations, on top of what the destinations held at the start
KeepsEarlierLoads ==
    \A j \in 1..(i - 1) :
       LET t == TableFor(ShapeOrder[j])
       IN  /\ LoadCallOf(j).op = "load_to_bigquery"
           /\ LoadCallOf(j).arg = t
           /\ ~LoadCallOf(j).empty <=> LoadCallOf(j).wrote > 0
           /\ whAtStart[t] \sqsubseteq warehouse[t]
           /\ BagCardinality(warehouse[t])
                 = BagCardinality(whAtStart[t]) + LoadCallOf(j).wrote

Level == ShapeOrder[i]

ArtistShape == Level \in {"geo_artists", "chart_artists"}
TrackShape  == Level \in {"geo_tracks", "chart_tracks"}
TagShape    == Level = "chart_tags"

\* transform_global was the last call: raw is what it was given, norm what
\* it returned
Transformed == calls # <<>> /\ LastCall.op = "transform_global"

Normalized == Transformed /\ ~DfEmpty(raw) /\ LastCall.fault = "none"

DeclaredColumns ==
    IF ArtistShape THEN <<"artist_name", "listeners", "playcount", "timestamp">>
    ELSE IF TrackShape THEN <<"artist_name", "track_name", "listeners", "timestamp">>
    ELSE <<"tag_name", "reach", "taggings", "timestamp">>

\* the columns the specification declares (int)
IntColumns == IF TagShape THEN {"reach", "taggings"} ELSE {"listeners"}

C7_TrackArtistName ==
    /\ (Normalized /\ TrackShape) =>
          \A j \in 1..Len(raw.rows) :
             LET a == raw.rows[j]["artist"]
             IN  /\ a.kind # "map" => norm.rows[j]["artist_name"] = None
                 /\ (a.kind = "map" /\ a.has) =>
                       norm.rows[j]["artist_name"] = Txt(a.txt)
                 /\ (a.kind = "map" /\ ~a.has) =>
                       norm.rows[j]["artist_name"] = None
    /\ (Transformed /\ TrackShape /\ ~DfEmpty(raw)
           /\ HasColumn(raw, "artist") /\ HasColumn(raw, "name")
           /\ HasColumn(raw, "listeners")
           /\ \A j \in 1..Len(raw.rows) :
                 raw.rows[j]["listeners"].kind = "int"
                    \/ (raw.rows[j]["listeners"].kind = "text"
                           /\ AllDigits(raw.rows[j]["listeners"].txt)))
          => LastCall.fault = "none"

\* a string artist beside a mapping artist, both normalized
C7_Witness ==
    /\ Normalized
    /\ Level = "geo_tracks"
    /\ Len(raw.rows) = 2
    /\ raw.rows[1]["artist"].kind = "text"
    /\ raw.rows[2]["artist"].kind = "map"
    /\ norm.rows[1]["artist_name"] = None
    /\ norm.rows[2]["artist_name"] = Txt(<<"A">>)

\* what the claim calls numeric, and non-numeric text
Numeric(v)        == v.kind = "int" \/ (v.kind = "text" /\ AllDigits(v.txt))
NonNumericText(v) == v.kind = "text" /\ ~AllDigits(v.txt)

\* the required source fields of the shape
RequiredFields ==
    IF ArtistShape THEN {"name", "listeners"}
    ELSE IF TrackShape THEN {"name", "artist", "listeners"}
    ELSE {"name", "reach", "taggings"}

\* record j of the fetched list has no such key
Lacks(j, c) == ~HasColumn(raw, c) \/ raw.rows[j][c].kind = "nan"

Faulted == /\ LastCall.fault # "none"
           /\ status = "failed"
           /\ norm = NoTable

\* the integer a count value stands for, for the values drawn
Stands(v, n) == /\ v = Txt(<<"1", "0">>) => n = 10
                /\ v = Num(7) => n = 7

NumericGivesIntegers ==
    (/\ \A c \in RequiredFields : HasColumn(raw, c)
     /\ \A j \in 1..Len(raw.rows) : \A c \in IntColumns : Numeric(raw.rows[j][c]))
    => /\ LastCall.fault = "none"
       /\ \A j \in 1..Len(raw.rows) : \A c \in IntColumns :
             /\ norm.rows[j][c].kind = "int"
             /\ Stands(raw.rows[j][c], norm.rows[j][c].num)

NonNumericFaults ==
    (\E j \in 1..Len(raw.rows) : \E c \in IntColumns :
        HasColumn(raw, c) /\ NonNumericText(raw.rows[j][c]))
    => Faulted

Fetched == calls # <<>> /\ calls[1].op = "extract_global" /\ resp.status = "ok"

OuterKey == key_map(MethodFor(Level))[1]
InnerKey == key_map(MethodFor(Level))[2]

HasOuter == OuterKey \in DOMAIN resp.body
HasInner == HasOuter /\ resp.body[OuterKey].kind = "map"
               /\ InnerKey \in DOMAIN resp.body[OuterKey].m
NestedList == resp.body[OuterKey].m[InnerKey]

\* the outer key is there, with an object that has no inner key
LacksInner == HasOuter /\ resp.body[OuterKey].kind = "map"
                 /\ InnerKey \notin DOMAIN resp.body[OuterKey].m

=============================================================================
